---------------------------- MODULE Spec2Model ----------------------------
(***************************************************************************)
(* Model of beastsplitter's SerialInput (src/beast_input.cc): the Beast    *)
(* frame parser, the autobaud controller, the Radarcape autodetector and   *)
(* the asynchronous I/O session (reads, settings writes, three timers).    *)
(*                                                                         *)
(* Every member function of SerialInput is an operator from a session      *)
(* record to a session record; a completion handler of the io_service is   *)
(* one action, which applies the operators of everything the handler       *)
(* calls.  Asynchronous operations are counted by their status: a read is  *)
(* pending (the port may still cancel it), ready (completed with data, its *)
(* handler queued), aborted or failed (handler queued with an error).      *)
(* Time is abstracted: a waiting timer may expire at any moment.           *)
(***************************************************************************)
EXTENDS Integers, Sequences, FiniteSets, TLC

VARIABLES
    \* construction inputs (beast_input.cc:13-44)
    fixed_baud_rate,          \* 0: autobaud
    fixed_radarcape,          \* fixed_settings.radarcape: "on", "off", "unset"
    message_notifier,         \* TRUE when a consumer callback is installed
    autobaud_rates,
    \* session state
    port_open,
    receiver_type,
    receiving_gps_timestamps,
    filter,
    autobauding,
    baud_rate,                \* index into autobaud_rates
    autobaud_interval,
    good_sync,
    bad_sync,
    bytes_since_sync,
    state,
    messagetype,
    metadata,
    messagedata,
    \* asynchronous operations in flight
    reads,
    writes,
    autobaud_timer,
    autodetect_timer,
    reconnect_timer,
    \* observation of the run
    started,                  \* the outer program has called start()
    closed,                   \* the outer program has called close()
    run_frames,               \* frames dispatched since the rate was last selected or sync was lost
    status_dispatched,        \* GPS bit of the last STATUS frame dispatched since start(): "none", "gps", "nogps"
    status_processed,         \* the same, of the last STATUS frame dispatch_message looked at
    trace,                    \* what the handler that ran last did, in order
    origin,                   \* parser harness: the session the stream is fed to
    stream,                   \* parser harness: the bytes to feed
    pos,                      \* parser harness: bytes fed so far
    sent,                     \* parser harness: the frame the stream encodes, if it encodes one
    budget                    \* environment events left to the run

vars == <<fixed_baud_rate, fixed_radarcape, message_notifier, autobaud_rates,
          port_open, receiver_type, receiving_gps_timestamps, filter,
          autobauding, baud_rate, autobaud_interval, good_sync, bad_sync,
          bytes_since_sync, state, messagetype, metadata, messagedata,
          reads, writes, autobaud_timer, autodetect_timer, reconnect_timer,
          started, closed, run_frames, status_dispatched, status_processed, trace,
          origin, stream, pos, sent, budget>>

-----------------------------------------------------------------------------
(* Program constants *)

autobaud_standard_rates == <<3000000, 1000000, 921600, 230400, 115200>>
autobaud_base_interval == 1000
autobaud_max_interval == 16000
autobaud_good_syncs_needed == 50
autobaud_restart_after_bad_syncs == 20
max_bytes_without_sync == 30
\* the literal the runtime check of lost_sync compares bad_sync with
lost_sync_restart_literal == 50
\* a frame's metadata: 6 timestamp bytes and 1 signal byte
metadata_size == 7
\* the framing escape 0x1A
ESC == 26

-----------------------------------------------------------------------------
(* Message types and the status byte: modes_message.h and beast_settings.h *)
(* are not part of the sources at hand.                                    *)

MODE_AC_BYTE == 49
MODE_S_BYTE == 50
STATUS_BYTE == 52
GPS_BIT == 16

messagetype_from_byte(b) ==
    IF b = MODE_AC_BYTE THEN "MODE_AC"
    ELSE IF b = MODE_S_BYTE THEN "MODE_S"
    ELSE IF b = STATUS_BYTE THEN "STATUS"
    ELSE "INVALID"

message_size(t) ==
    IF t = "MODE_AC" THEN 2
    ELSE IF t = "MODE_S" THEN 14
    ELSE IF t = "STATUS" THEN 14
    ELSE 0

\* Settings(b).gps_timestamps.on()
gps_timestamps_on(b) == (b \div GPS_BIT) % 2 = 1

-----------------------------------------------------------------------------
(* The session as a record, so that member functions compose *)

Session ==
    [fixed_radarcape |-> fixed_radarcape, message_notifier |-> message_notifier,
     autobaud_rates |-> autobaud_rates,
     port_open |-> port_open, receiver_type |-> receiver_type,
     receiving_gps_timestamps |-> receiving_gps_timestamps, filter |-> filter,
     autobauding |-> autobauding, baud_rate |-> baud_rate,
     autobaud_interval |-> autobaud_interval, good_sync |-> good_sync,
     bad_sync |-> bad_sync, bytes_since_sync |-> bytes_since_sync,
     state |-> state, messagetype |-> messagetype, metadata |-> metadata,
     messagedata |-> messagedata, reads |-> reads, writes |-> writes,
     autobaud_timer |-> autobaud_timer, autodetect_timer |-> autodetect_timer,
     reconnect_timer |-> reconnect_timer, run_frames |-> run_frames,
     status_dispatched |-> status_dispatched, status_processed |-> status_processed,
     trace |-> <<>>]

Becomes(s) ==
    /\ port_open' = s.port_open
    /\ receiver_type' = s.receiver_type
    /\ receiving_gps_timestamps' = s.receiving_gps_timestamps
    /\ filter' = s.filter
    /\ autobauding' = s.autobauding
    /\ baud_rate' = s.baud_rate
    /\ autobaud_interval' = s.autobaud_interval
    /\ good_sync' = s.good_sync
    /\ bad_sync' = s.bad_sync
    /\ bytes_since_sync' = s.bytes_since_sync
    /\ state' = s.state
    /\ messagetype' = s.messagetype
    /\ metadata' = s.metadata
    /\ messagedata' = s.messagedata
    /\ reads' = s.reads
    /\ writes' = s.writes
    /\ autobaud_timer' = s.autobaud_timer
    /\ autodetect_timer' = s.autodetect_timer
    /\ reconnect_timer' = s.reconnect_timer
    /\ run_frames' = s.run_frames
    /\ status_dispatched' = s.status_dispatched
    /\ status_processed' = s.status_processed
    /\ trace' = s.trace
    /\ UNCHANGED <<fixed_baud_rate, fixed_radarcape, message_notifier, autobaud_rates>>

Log(s, e) == [s EXCEPT !.trace = Append(@, e)]

\* an interval that keeps doubling
uncapped(a, b) == b

\* std::min
Min(a, b) == IF a < b THEN a ELSE b

-----------------------------------------------------------------------------
(* boost::asio::steady_timer: one wait at most is waiting; a wait that has *)
(* expired has its handler queued and can no longer be cancelled.          *)

IdleTimer == [waiting |-> FALSE, fired |-> 0, aborted |-> 0]

\* cancel(): the waiting handler is queued with operation_aborted
timer_cancel(t) ==
    IF t.waiting THEN [t EXCEPT !.waiting = FALSE, !.aborted = @ + 1] ELSE t

\* expires_from_now(d) cancels what is waiting; async_wait(h) then waits
timer_arm(t) == [timer_cancel(t) EXCEPT !.waiting = TRUE]

(* boost::asio::serial_port *)

NoOps == [pending |-> 0, ready |-> 0, aborted |-> 0, failed |-> 0]

\* cancel() and close(): operations not yet completed complete with operation_aborted
ops_cancel(o) == [o EXCEPT !.pending = 0, !.aborted = @ + o.pending]

port_cancel(s) ==
    [s EXCEPT !.reads = ops_cancel(@), !.writes = ops_cancel(@)]

\* an operation started on a closed port completes with an error
ops_issue(o, open) ==
    IF open THEN [o EXCEPT !.pending = @ + 1] ELSE [o EXCEPT !.failed = @ + 1]

-----------------------------------------------------------------------------
(* SerialInput's member functions *)

\* a session that takes a cancelled completion for a fault
never_cancellation(ec) == FALSE

\* a fault that leaves the autobaud state as it was
keep_autobaud(s) == s

\* ec == boost::asio::error::operation_aborted
is_cancellation(ec) == ec = "operation_aborted"

\* "reset autobaud state"
reset_autobaud(s) ==
    IF s.autobaud_rates # <<>>
    THEN [s EXCEPT !.autobauding = TRUE,
                   !.autobaud_interval = autobaud_base_interval,
                   !.baud_rate = 1,
                   !.run_frames = 0]
    ELSE s

handle_error(s, ec) ==
    LET s0 == Log(s, [kind |-> "handle_error", ec |-> ec])
    IN  IF is_cancellation(ec) THEN s0
        ELSE LET s1 == [s0 EXCEPT !.autobaud_timer = timer_cancel(@),
                                  !.autodetect_timer = timer_cancel(@)]
                 s2 == IF s1.port_open
                       THEN [port_cancel(s1) EXCEPT !.port_open = FALSE]
                       ELSE s1
                 s3 == reset_autobaud(s2)
             IN  [s3 EXCEPT !.reconnect_timer = timer_arm(@)]

send_settings_message(s) ==
    Log([s EXCEPT !.writes = ops_issue(@, s.port_open)],
        [kind |-> "settings", radarcape |-> (s.receiver_type = "RADARCAPE"),
         filter |-> s.filter, port_open |-> s.port_open])

start_reading(s) ==
    Log([s EXCEPT !.reads = ops_issue(@, s.port_open)],
        [kind |-> "read", port_open |-> s.port_open])

\* a start() that keeps the timestamp kind of the last session
keep_timestamp_kind(s) == s

\* receiving_gps_timestamps = false
reset_timestamp_kind(s) == [s EXCEPT !.receiving_gps_timestamps = FALSE]

\* ok: whether open() and every set_option() of the try block succeed
start(s, ok) ==
    LET s0 == Log(s, [kind |-> "start", ok |-> ok, rate |-> s.baud_rate])
        s1 == IF s0.port_open THEN port_cancel(s0) ELSE s0
    IN  IF ~ok THEN handle_error(s1, "error")
        ELSE LET s2 == [reset_timestamp_kind(s1) EXCEPT
                                  !.port_open = TRUE,
                                  !.autodetect_timer = timer_cancel(@),
                                  !.run_frames = 0,
                                  !.status_dispatched = "none",
                                  !.status_processed = "none"]
                 s3 == IF s2.fixed_radarcape = "on"
                       THEN [s2 EXCEPT !.receiver_type = "RADARCAPE"]
                       ELSE IF s2.fixed_radarcape = "off"
                       THEN [s2 EXCEPT !.receiver_type = "BEAST"]
                       ELSE [s2 EXCEPT !.receiver_type = "UNKNOWN",
                                       !.autodetect_timer = timer_arm(@)]
                 s4 == start_reading(send_settings_message(s3))
             IN  IF Len(s4.autobaud_rates) > 1
                 THEN [s4 EXCEPT !.autobaud_timer = timer_arm(@)]
                 ELSE s4

\* a session that takes no rate for settled
never_settled(s) == FALSE

\* !autobauding
rate_settled(s) == ~s.autobauding

\* the early return is logged, so that a handler run for nothing is seen
advance_autobaud(s, ok) ==
    IF rate_settled(s) THEN Log(s, [kind |-> "advance_autobaud", autobauding |-> FALSE])
    ELSE LET s1 == IF s.baud_rate + 1 = Len(s.autobaud_rates) + 1
                   THEN [s EXCEPT !.baud_rate = 1,
                                  !.autobaud_interval =
                                      Min(autobaud_max_interval, @ * 2)]
                   ELSE [s EXCEPT !.baud_rate = @ + 1]
         IN  start(s1, ok)

\* a session that forgives after four good syncs
four_suffice(n) == n < 4

\* good_sync < 5
few_good_syncs(n) == n < 5

\* the start() calls a handler has logged
Starts(s) == Len(SelectSeq(s.trace, LAMBDA e : e.kind = "start"))

\* the call is logged as it returns, with what it found and what it leaves
lost_sync(s, ok) ==
    LET s1 == IF few_good_syncs(s.good_sync)
              THEN [s EXCEPT !.bad_sync = @ + 1]
              ELSE [s EXCEPT !.bad_sync = 0]
        s2 == [s1 EXCEPT !.state = "RESYNC", !.good_sync = 0,
                         !.bytes_since_sync = 0, !.run_frames = 0]
        s3 == IF ~s2.autobauding /\ Len(s2.autobaud_rates) > 1
                 /\ s2.bad_sync > lost_sync_restart_literal
              THEN advance_autobaud([s2 EXCEPT !.autobauding = TRUE], ok)
              ELSE s2
    IN  Log(s3, [kind |-> "lost_sync",
                 before |-> [good_sync |-> s.good_sync, bad_sync |-> s.bad_sync,
                             autobauding |-> s.autobauding,
                             baud_rate |-> s.baud_rate],
                 after |-> [state |-> s3.state, good_sync |-> s3.good_sync,
                            bad_sync |-> s3.bad_sync,
                            bytes_since_sync |-> s3.bytes_since_sync,
                            autobauding |-> s3.autobauding,
                            baud_rate |-> s3.baud_rate],
                 rates |-> Len(s.autobaud_rates),
                 starts |-> Starts(s3) - Starts(s)])

\* an assembly in 32 bits: what is shifted past bit 31 is lost
truncated_timestamp(m) ==
    [hi |-> m[3],
     lo |-> m[4] * 65536 + m[5] * 256 + m[6]]

\* the 48-bit timestamp, as its high and low 24 bits
timestamp_of(m) ==
    [hi |-> m[1] * 65536 + m[2] * 256 + m[3],
     lo |-> m[4] * 65536 + m[5] * 256 + m[6]]

GpsOf(b) == IF gps_timestamps_on(b) THEN "gps" ELSE "nogps"

\* a session that asks for one good sync more
more_than_enough(n) == n > autobaud_good_syncs_needed

\* ++good_sync >= autobaud_good_syncs_needed
enough_good_syncs(n) == n >= autobaud_good_syncs_needed

\* the count of good syncs, and the rate pinned when enough were seen
count_good_sync(s) ==
    IF enough_good_syncs(s.good_sync + 1)
    THEN LET a == [s EXCEPT !.good_sync = autobaud_good_syncs_needed,
                            !.bad_sync = 0,
                            !.bytes_since_sync = 0]
         IN  IF a.autobauding
             THEN LET c == [a EXCEPT !.autobauding = FALSE,
                                     !.autobaud_timer = timer_cancel(@)]
                  IN  Log(c, [kind |-> "pinned", rate |-> c.baud_rate,
                              run_frames |-> c.run_frames,
                              timer_waiting |-> c.autobaud_timer.waiting])
             ELSE a
    ELSE [s EXCEPT !.good_sync = @ + 1]

\* a session that processes frames whatever the value of autobauding
always_convinced(s) == FALSE

\* "if we are not convinced of this rate, don't process messages yet"
not_convinced(s) == s.autobauding

\* "monitor status messages for GPS timestamp bit and for radarcape autodetection"
monitor_status(s) ==
    IF s.messagetype = "STATUS"
    THEN LET b == [s EXCEPT !.receiving_gps_timestamps =
                                gps_timestamps_on(s.messagedata[1]),
                            !.status_processed = GpsOf(s.messagedata[1])]
         IN  IF b.receiver_type = "UNKNOWN"
             THEN LET c == [b EXCEPT !.receiver_type = "RADARCAPE",
                                     !.autodetect_timer = timer_cancel(@)]
                  IN  send_settings_message(
                          Log(c, [kind |-> "detected",
                                  timer_waiting |-> c.autodetect_timer.waiting]))
             ELSE b
    ELSE s

\* "still trying to autodetect, swallow messages"
still_autodetecting(s) == s.receiver_type = "UNKNOWN"

\* the Message handed to message_notifier, and the session as the call finds it
notify(s) ==
    Log([s EXCEPT !.messagedata = <<>>],
        [kind |-> "message", type |-> s.messagetype,
         timestamp_kind |-> IF s.receiving_gps_timestamps
                            THEN "GPS" ELSE "TWELVEMEG",
         metadata |-> s.metadata,
         timestamp |-> timestamp_of(s.metadata),
         signal |-> s.metadata[7],
         payload |-> s.messagedata,
         autobauding |-> s.autobauding,
         receiver_type |-> s.receiver_type,
         status_dispatched |-> s.status_dispatched,
         status_processed |-> s.status_processed])

dispatch_message(s) ==
    LET s0 == [s EXCEPT !.run_frames = Min(@ + 1, autobaud_good_syncs_needed),
                        !.status_dispatched =
                            IF s.messagetype = "STATUS"
                            THEN GpsOf(s.messagedata[1]) ELSE @]
        s1 == count_good_sync(s0)
        s2 == Log(s1, [kind |-> "frame", type |-> s1.messagetype,
                       metadata |-> s1.metadata, payload |-> s1.messagedata,
                       autobauding |-> s1.autobauding,
                       receiver_type |-> s1.receiver_type])
    IN  IF not_convinced(s2) THEN s2
        ELSE LET s3 == monitor_status(s2)
             IN  IF still_autodetecting(s3) THEN s3
                 ELSE IF ~s3.message_notifier THEN s3
                 ELSE notify(s3)

-----------------------------------------------------------------------------
(* parse_input: each operator below is one case of the switch, run from    *)
(* position p of buf; it gives the session and the position it leaves.     *)

At(s, p) == [s |-> s, p |-> p]

\* a parser that lets one byte more pass
one_byte_more(n) == n > max_bytes_without_sync + 1

\* ++bytes_since_sync > max_bytes_without_sync
too_long_without_sync(n) == n > max_bytes_without_sync

\* the for loop of case RESYNC: a break leaves p where it is
RECURSIVE scan_RESYNC(_, _, _, _)
scan_RESYNC(s, buf, p, ok) ==
    IF p > Len(buf) THEN At(s, p)
    ELSE IF buf[p] # ESC THEN At([s EXCEPT !.state = "FIND_1A"], p)
    ELSE LET s1 == [s EXCEPT !.bytes_since_sync = @ + 1]
         IN  IF too_long_without_sync(s1.bytes_since_sync)
             THEN At(lost_sync(s1, ok), p)
             ELSE scan_RESYNC(s1, buf, p + 1, ok)

\* the for loop of case FIND_1A
RECURSIVE scan_FIND_1A(_, _, _, _)
scan_FIND_1A(s, buf, p, ok) ==
    IF p > Len(buf) THEN At(s, p)
    ELSE IF buf[p] = ESC THEN At([s EXCEPT !.state = "TEST_TYPE"], p + 1)
    ELSE LET s1 == [s EXCEPT !.bytes_since_sync = @ + 1]
         IN  IF too_long_without_sync(s1.bytes_since_sync)
             THEN At(lost_sync(s1, ok), p)
             ELSE scan_FIND_1A(s1, buf, p + 1, ok)

case_READ_1A(s, buf, p, ok) ==
    IF buf[p] = ESC THEN At([s EXCEPT !.state = "READ_TYPE"], p + 1)
    ELSE At(lost_sync(s, ok), p)

\* a parser that drops the byte that was no type
dropped(p) == p + 1

\* TEST_TYPE on an invalid type: p is not advanced
reexamined(p) == p

\* cases TEST_TYPE and READ_TYPE
case_TYPE(s, buf, p, ok) ==
    LET s1 == [s EXCEPT !.messagetype = messagetype_from_byte(buf[p])]
    IN  IF s1.messagetype = "INVALID"
        THEN IF s1.state = "READ_TYPE"
             THEN At(lost_sync(s1, ok), p)
             ELSE At([s1 EXCEPT !.state = "FIND_1A"], reexamined(p))
        ELSE At([s1 EXCEPT !.metadata = <<>>, !.messagedata = <<>>,
                           !.state = "READ_DATA"], p + 1)

\* a parser that takes one byte more for the metadata
one_more_for_metadata(m) == Len(m) < metadata_size + 1

\* metadata.size() < 7
metadata_incomplete(m) == Len(m) < metadata_size

\* metadata.push_back(b) or messagedata.push_back(b)
push_byte(s, b) ==
    IF metadata_incomplete(s.metadata)
    THEN [s EXCEPT !.metadata = Append(@, b)]
    ELSE [s EXCEPT !.messagedata = Append(@, b)]

\* a parser that forgets the 1A it saw last in a buffer
forget_escape(s) == s

\* "Can't handle it this time around": a 1A that ends the buffer
defer_escape(s) == [s EXCEPT !.state = "READ_ESCAPED_1A"]

\* the while loop of case READ_DATA
RECURSIVE read_DATA(_, _, _, _, _)
read_DATA(s, buf, p, ok, msglen) ==
    IF ~(p <= Len(buf) /\ Len(s.messagedata) < msglen) THEN At(s, p)
    ELSE LET b == buf[p]
             p1 == p + 1
         IN  IF b = ESC
             THEN IF p1 > Len(buf)
                  THEN At(defer_escape(s), p1)
                  ELSE IF buf[p1] # ESC
                  THEN At(lost_sync(s, ok), p1)
                  ELSE read_DATA(push_byte(s, b), buf, p1 + 1, ok, msglen)
             ELSE read_DATA(push_byte(s, b), buf, p1, ok, msglen)

case_READ_DATA(s, buf, p, ok) ==
    LET msglen == message_size(s.messagetype)
        r == read_DATA(s, buf, p, ok, msglen)
    IN  IF Len(r.s.messagedata) >= msglen
        THEN At([dispatch_message(r.s) EXCEPT !.state = "READ_1A"], r.p)
        ELSE r

case_READ_ESCAPED_1A(s, buf, p, ok) ==
    IF buf[p] # ESC THEN At(lost_sync(s, ok), p)
    ELSE LET s1 == push_byte(s, buf[p])
         IN  IF Len(s1.messagedata) >= message_size(s1.messagetype)
             THEN At([dispatch_message(s1) EXCEPT !.state = "READ_1A"], p + 1)
             ELSE At([s1 EXCEPT !.state = "READ_DATA"], p + 1)

\* one turn of the while (p != buf.end()) loop: the switch
parse_switch(a, buf, ok) ==
    IF a.p > Len(buf) THEN a
    ELSE IF a.s.state = "RESYNC" THEN scan_RESYNC(a.s, buf, a.p, ok)
    ELSE IF a.s.state = "FIND_1A" THEN scan_FIND_1A(a.s, buf, a.p, ok)
    ELSE IF a.s.state = "READ_1A" THEN case_READ_1A(a.s, buf, a.p, ok)
    ELSE IF a.s.state \in {"TEST_TYPE", "READ_TYPE"} THEN case_TYPE(a.s, buf, a.p, ok)
    ELSE IF a.s.state = "READ_DATA" THEN case_READ_DATA(a.s, buf, a.p, ok)
    ELSE IF a.s.state = "READ_ESCAPED_1A" THEN case_READ_ESCAPED_1A(a.s, buf, a.p, ok)
    ELSE At(lost_sync(a.s, ok), a.p)

\* n turns of the loop, or fewer when the buffer is used up
RECURSIVE parse_turns(_, _, _, _)
parse_turns(a, buf, ok, n) ==
    IF a.p > Len(buf) THEN a
    ELSE IF n <= 1 THEN parse_switch(a, buf, ok)
    ELSE parse_turns(parse_turns(a, buf, ok, n \div 2), buf, ok, n - n \div 2)

\* no byte takes more than three turns: a turn that leaves p in place
\* (lost_sync, a revert to FIND_1A) is followed within two by one that moves it
parse_input(s, buf, ok) == parse_turns(At(s, 1), buf, ok, 3 * Len(buf) + 3).s

-----------------------------------------------------------------------------
(* Bounds of the model *)

\* operations of one kind and status in flight
MaxOps == 2
\* queued handlers of one timer and status
MaxQueued == 1
\* bad_sync grows without limit while autobauding
MaxBadSync == 60
\* events the environment may produce in a run: reads that complete, I/O
\* faults, expiries of the autobaud and autodetect timers, set_filter calls
MaxEvents == 3

OpsBounded(o) ==
    /\ o.pending <= MaxOps /\ o.ready <= MaxOps
    /\ o.aborted <= MaxOps /\ o.failed <= MaxOps

TimerBounded(t) == t.fired <= MaxQueued /\ t.aborted <= MaxQueued

Bounded(s) ==
    /\ OpsBounded(s.reads) /\ OpsBounded(s.writes)
    /\ TimerBounded(s.autobaud_timer) /\ TimerBounded(s.autodetect_timer)
    /\ TimerBounded(s.reconnect_timer)
    /\ s.bad_sync <= MaxBadSync

-----------------------------------------------------------------------------
(* Input of the serial line *)

Escaped(bytes) ==
    LET RECURSIVE esc(_)
        esc(i) == IF i > Len(bytes) THEN <<>>
                  ELSE (IF bytes[i] = ESC THEN <<ESC, ESC>> ELSE <<bytes[i]>>) \o esc(i + 1)
    IN  esc(1)

\* a frame on the wire: 0x1A <type> and the escaped metadata and payload
Frame(typebyte, meta, payload) == <<ESC, typebyte>> \o Escaped(meta \o payload)

Meta0 == <<0, 1, 2, 3, 4, 5, 255>>
MetaEsc == <<0, 1, ESC, 3, 4, 5, 200>>
FrameAC == Frame(MODE_AC_BYTE, Meta0, <<7, 8>>)
PayloadEsc == <<9, ESC>>
FrameACEsc == Frame(MODE_AC_BYTE, MetaEsc, PayloadEsc)
FrameStatus(b) == Frame(STATUS_BYTE, Meta0, <<b>> \o [i \in 1..13 |-> 0])
FrameStatusGps == FrameStatus(GPS_BIT)
FrameStatusNoGps == FrameStatus(0)

RECURSIVE Repeat(_, _)
Repeat(bytes, n) == IF n = 0 THEN <<>> ELSE bytes \o Repeat(bytes, n - 1)

\* what one read of the running session may return
Chunks ==
    { <<0>> \o FrameAC,
      FrameAC,
      FrameACEsc,
      FrameStatusGps,
      FrameStatusNoGps,
      <<0, ESC, MODE_AC_BYTE, ESC>> }

Filters == {"f0", "f1"}

-----------------------------------------------------------------------------
(* The handlers the io_service runs, as session transformers *)

\* the device delivers bytes to the pending read: its handler is queued
read_completes(s) == [s EXCEPT !.reads.pending = @ - 1, !.reads.ready = @ + 1]

\* the completion handler of async_read_some, without error
on_read(s, buf, ok) ==
    start_reading(parse_input([s EXCEPT !.reads.ready = @ - 1], buf, ok))

\* the handler of the autodetect timer, without error
on_autodetect(s) ==
    send_settings_message([s EXCEPT !.receiver_type = "BEAST"])

\* close(), declared at beast_input.h:65; its definition is not part of the
\* sources, so it is what the specification says of it: the three timers are
\* cancelled, the serial handle is released and the I/O in flight with it
close(s) ==
    LET s1 == [s EXCEPT !.reconnect_timer = timer_cancel(@),
                        !.autobaud_timer = timer_cancel(@),
                        !.autodetect_timer = timer_cancel(@)]
        s2 == IF s1.port_open
              THEN [port_cancel(s1) EXCEPT !.port_open = FALSE]
              ELSE s1
    IN  Log(s2, [kind |-> "close"])

\* a session that takes every filter for a new one
always_changed(s, newfilter) == TRUE

\* filter != newfilter
filter_changed(s, newfilter) == s.filter # newfilter

set_filter(s, newfilter) ==
    LET s0 == Log(s, [kind |-> "set_filter", newfilter |-> newfilter])
    IN  IF filter_changed(s0, newfilter)
        THEN LET s1 == [s0 EXCEPT !.filter = newfilter]
             IN  IF s1.port_open THEN send_settings_message(s1) ELSE s1
        ELSE s0

StartFailed(s) ==
    \E i \in 1..Len(s.trace) : s.trace[i].kind = "start" /\ ~s.trace[i].ok

\* what a handler leaves: the session, and the budget its faults used up
Leaves(s) ==
    /\ Bounded(s)
    /\ StartFailed(s) => budget > 0
    /\ Becomes(s)
    /\ UNCHANGED <<started, closed, origin, stream, pos, sent>>

Spend == budget' = budget - 1

SpendFaultsOf(s) ==
    budget' = IF StartFailed(s) THEN budget - 1 ELSE budget

-----------------------------------------------------------------------------
(* Construction (beast_input.cc:13-44) *)

FixedBaudRates == {0, 115200}
FixedRadarcape == {"on", "off", "unset"}

NoOrigin == [state |-> "none"]
NothingSent == [typebyte |-> 0]

\* the session the constructor leaves
Constructed(rate, radarcape, notifier, f) ==
    [fixed_radarcape |-> radarcape, message_notifier |-> notifier,
     autobaud_rates |-> IF rate = 0 THEN autobaud_standard_rates ELSE <<rate>>,
     port_open |-> FALSE, receiver_type |-> "UNKNOWN",
     receiving_gps_timestamps |-> FALSE, filter |-> f,
     autobauding |-> (rate = 0), baud_rate |-> 1,
     autobaud_interval |-> autobaud_base_interval, good_sync |-> 0,
     bad_sync |-> 0, bytes_since_sync |-> 0,
     state |-> "RESYNC", messagetype |-> "INVALID", metadata |-> <<>>,
     messagedata |-> <<>>, reads |-> NoOps, writes |-> NoOps,
     autobaud_timer |-> IdleTimer, autodetect_timer |-> IdleTimer,
     reconnect_timer |-> IdleTimer, run_frames |-> 0,
     status_dispatched |-> "none", status_processed |-> "none",
     trace |-> <<>>]

SessionIs(s) ==
    /\ fixed_radarcape = s.fixed_radarcape
    /\ message_notifier = s.message_notifier
    /\ autobaud_rates = s.autobaud_rates
    /\ port_open = s.port_open
    /\ receiver_type = s.receiver_type
    /\ receiving_gps_timestamps = s.receiving_gps_timestamps
    /\ filter = s.filter
    /\ autobauding = s.autobauding
    /\ baud_rate = s.baud_rate
    /\ autobaud_interval = s.autobaud_interval
    /\ good_sync = s.good_sync
    /\ bad_sync = s.bad_sync
    /\ bytes_since_sync = s.bytes_since_sync
    /\ state = s.state
    /\ messagetype = s.messagetype
    /\ metadata = s.metadata
    /\ messagedata = s.messagedata
    /\ reads = s.reads
    /\ writes = s.writes
    /\ autobaud_timer = s.autobaud_timer
    /\ autodetect_timer = s.autodetect_timer
    /\ reconnect_timer = s.reconnect_timer
    /\ run_frames = s.run_frames
    /\ status_dispatched = s.status_dispatched
    /\ status_processed = s.status_processed
    /\ trace = s.trace

Init ==
    /\ \E rate \in FixedBaudRates, radarcape \in FixedRadarcape :
           /\ fixed_baud_rate = rate
           /\ SessionIs(Constructed(rate, radarcape, TRUE, "f0"))
    /\ started = FALSE
    /\ closed = FALSE
    /\ origin = NoOrigin
    /\ sent = NothingSent
    /\ stream = <<>>
    /\ pos = 0
    /\ budget = MaxEvents

-----------------------------------------------------------------------------
(* Actions: the outer program's calls, the environment's events, and the   *)
(* completion handlers                                                     *)

\* A handler queued with operation_aborted changes nothing (handle_error
\* returns, the timer handlers test !ec), so when it runs relative to the
\* other handlers is immaterial: the model runs the cancelled handlers first,
\* those of the port before those of the timers.
NoneCancelled ==
    /\ reads.aborted = 0 /\ writes.aborted = 0
    /\ autobaud_timer.aborted = 0 /\ autodetect_timer.aborted = 0
    /\ reconnect_timer.aborted = 0

\* the outer program calls start() once
UserStart ==
    /\ ~started
    /\ \E ok \in BOOLEAN :
         LET s == start(Session, ok)
         IN  /\ Bounded(s) /\ (StartFailed(s) => budget > 0)
             /\ Becomes(s) /\ SpendFaultsOf(s)
    /\ started' = TRUE
    /\ UNCHANGED <<closed, origin, stream, pos, sent>>

\* the outer program calls set_filter
UserSetFilter ==
    /\ NoneCancelled
    /\ budget > 0
    /\ \E f \in Filters : Leaves(set_filter(Session, f))
    /\ Spend

\* the outer program calls close() once, on a session it has started
UserClose ==
    /\ NoneCancelled
    /\ started /\ ~closed
    /\ budget > 0
    /\ LET s == close(Session)
       IN  Bounded(s) /\ Becomes(s)
    /\ closed' = TRUE
    /\ Spend
    /\ UNCHANGED <<started, origin, stream, pos, sent>>

\* the device delivers bytes: the pending read completes, its handler is queued
ReadCompletes ==
    /\ NoneCancelled
    /\ reads.pending > 0
    /\ budget > 0
    /\ Leaves(read_completes(Session))
    /\ Spend

ReadHandler ==
    /\ NoneCancelled
    /\ reads.ready > 0
    /\ \E buf \in Chunks, ok \in BOOLEAN :
         LET s == on_read(Session, buf, ok)
         IN  Leaves(s) /\ SpendFaultsOf(s)

\* the pending read fails: its handler runs with the error
ReadFails ==
    /\ NoneCancelled
    /\ reads.pending > 0
    /\ budget > 0
    /\ Leaves(handle_error([Session EXCEPT !.reads.pending = @ - 1], "error"))
    /\ Spend

\* the handler of a read that was started on the closed port
ReadOnClosedPort ==
    /\ NoneCancelled
    /\ reads.failed > 0
    /\ Leaves(handle_error([Session EXCEPT !.reads.failed = @ - 1], "error"))
    /\ UNCHANGED budget

ReadAborted ==
    /\ reads.aborted > 0
    /\ Leaves(handle_error([Session EXCEPT !.reads.aborted = @ - 1],
                           "operation_aborted"))
    /\ UNCHANGED budget

\* a settings write completes without error: its handler does nothing
WriteCompletes ==
    /\ NoneCancelled
    /\ writes.pending > 0
    /\ Leaves([Session EXCEPT !.writes.pending = @ - 1])
    /\ UNCHANGED budget

WriteFails ==
    /\ NoneCancelled
    /\ writes.pending > 0
    /\ budget > 0
    /\ Leaves(handle_error([Session EXCEPT !.writes.pending = @ - 1], "error"))
    /\ Spend

WriteOnClosedPort ==
    /\ NoneCancelled
    /\ writes.failed > 0
    /\ Leaves(handle_error([Session EXCEPT !.writes.failed = @ - 1], "error"))
    /\ UNCHANGED budget

WriteAborted ==
    /\ reads.aborted = 0
    /\ writes.aborted > 0
    /\ Leaves(handle_error([Session EXCEPT !.writes.aborted = @ - 1],
                           "operation_aborted"))
    /\ UNCHANGED budget

\* a waiting timer expires: its handler is queued without error
timer_expire(t) == [t EXCEPT !.waiting = FALSE, !.fired = @ + 1]

AutobaudTimerExpires ==
    /\ NoneCancelled
    /\ autobaud_timer.waiting
    /\ budget > 0
    /\ Leaves([Session EXCEPT !.autobaud_timer = timer_expire(@)])
    /\ Spend

AutobaudTimerHandler ==
    /\ NoneCancelled
    /\ autobaud_timer.fired > 0
    /\ \E ok \in BOOLEAN :
         LET s == advance_autobaud([Session EXCEPT !.autobaud_timer.fired = @ - 1], ok)
         IN  Leaves(s) /\ SpendFaultsOf(s)

AutobaudTimerAborted ==
    /\ reads.aborted = 0 /\ writes.aborted = 0
    /\ autobaud_timer.aborted > 0
    /\ Leaves([Session EXCEPT !.autobaud_timer.aborted = @ - 1])
    /\ UNCHANGED budget

AutodetectTimerExpires ==
    /\ NoneCancelled
    /\ autodetect_timer.waiting
    /\ budget > 0
    /\ Leaves([Session EXCEPT !.autodetect_timer = timer_expire(@)])
    /\ Spend

AutodetectTimerHandler ==
    /\ NoneCancelled
    /\ autodetect_timer.fired > 0
    /\ Leaves(on_autodetect([Session EXCEPT !.autodetect_timer.fired = @ - 1]))
    /\ UNCHANGED budget

AutodetectTimerAborted ==
    /\ reads.aborted = 0 /\ writes.aborted = 0 /\ autobaud_timer.aborted = 0
    /\ autodetect_timer.aborted > 0
    /\ Leaves([Session EXCEPT !.autodetect_timer.aborted = @ - 1])
    /\ UNCHANGED budget

ReconnectTimerExpires ==
    /\ NoneCancelled
    /\ reconnect_timer.waiting
    /\ Leaves([Session EXCEPT !.reconnect_timer = timer_expire(@)])
    /\ UNCHANGED budget

ReconnectTimerHandler ==
    /\ NoneCancelled
    /\ reconnect_timer.fired > 0
    /\ \E ok \in BOOLEAN :
         LET s == start([Session EXCEPT !.reconnect_timer.fired = @ - 1], ok)
         IN  Leaves(s) /\ SpendFaultsOf(s)

ReconnectTimerAborted ==
    /\ reads.aborted = 0 /\ writes.aborted = 0 /\ autobaud_timer.aborted = 0
    /\ autodetect_timer.aborted = 0
    /\ reconnect_timer.aborted > 0
    /\ Leaves([Session EXCEPT !.reconnect_timer.aborted = @ - 1])
    /\ UNCHANGED budget

\* what happens once the session runs
Run ==
    \/ UserSetFilter
    \/ UserClose
    \/ ReadCompletes
    \/ ReadHandler
    \/ ReadFails
    \/ ReadOnClosedPort
    \/ ReadAborted
    \/ WriteCompletes
    \/ WriteFails
    \/ WriteOnClosedPort
    \/ WriteAborted
    \/ AutobaudTimerExpires
    \/ AutobaudTimerHandler
    \/ AutobaudTimerAborted
    \/ AutodetectTimerExpires
    \/ AutodetectTimerHandler
    \/ AutodetectTimerAborted
    \/ ReconnectTimerExpires
    \/ ReconnectTimerHandler
    \/ ReconnectTimerAborted

Next == UserStart \/ Run

Spec == Init /\ [][Next]_vars

-----------------------------------------------------------------------------
(* Sessions that have been running for a while.  Pinning a rate takes 50   *)
(* frames and restarting autobaud more than 50 sync failures; SpecWarm     *)
(* starts from sessions the handlers above leave after start() and one or  *)
(* two long reads, and runs the same handlers from there.                  *)

Running(rate, radarcape) ==
    [start(Constructed(rate, radarcape, TRUE, "f0"), TRUE) EXCEPT !.trace = <<>>]

\* the session after a read that returned buf
AfterRead(s, buf) ==
    [on_read(read_completes(s), buf, TRUE) EXCEPT !.trace = <<>>]

\* read while a frame is awaited or being read, this loses sync once
LoseSync == <<0, ESC, MODE_AC_BYTE, ESC>>

\* autobauding, two frames short of pinning the first rate
NearlyPinned(radarcape) ==
    AfterRead(Running(0, radarcape),
              <<0>> \o Repeat(FrameAC, autobaud_good_syncs_needed - 2))

\* the first rate pinned, then n sync failures in a row
PinnedBad(n) ==
    AfterRead(AfterRead(Running(0, "on"),
                        <<0>> \o Repeat(FrameAC, autobaud_good_syncs_needed)),
              Repeat(LoseSync, n + 1))

\* the autobaud timer expires and its handler runs, and so do the handlers
\* of the operations the restart cancelled
AutobaudStep(s) ==
    LET s1 == advance_autobaud([s EXCEPT !.autobaud_timer = IdleTimer], TRUE)
    IN  [s1 EXCEPT !.reads.aborted = 0, !.writes.aborted = 0, !.trace = <<>>]

\* no input for k expiries of the autobaud timer; once the rate is settled
\* an expiry changes nothing
RECURSIVE Silent(_, _)
Silent(s, k) ==
    IF k = 0 THEN s
    ELSE LET s1 == AutobaudStep(s)
         IN  IF s1.autobauding THEN Silent(s1, k - 1) ELSE s1

\* expiries that leave the session at the last rate, on the first lap and
\* on one where the interval has reached the maximum
FirstLap == Len(autobaud_standard_rates) - 1
LateLap == 5 * Len(autobaud_standard_rates) - 1

WarmSessions ==
    { NearlyPinned("on"), NearlyPinned("unset"),
      PinnedBad(autobaud_restart_after_bad_syncs - 1),
      PinnedBad(lost_sync_restart_literal - 1),
      Silent(Running(0, "on"), FirstLap),
      Silent(Running(0, "on"), LateLap) }

InitWarm ==
    /\ fixed_baud_rate = 0
    /\ \E w \in WarmSessions : SessionIs(w)
    /\ started = TRUE
    /\ closed = FALSE
    /\ origin = NoOrigin
    /\ sent = NothingSent
    /\ stream = <<>>
    /\ pos = 0
    /\ budget = MaxEvents

SpecWarm == InitWarm /\ [][Run]_vars

-----------------------------------------------------------------------------
(* The parser alone: parse_input applied to a stream cut into chunks *)

MaxPieces == 2

Pieces ==
    { <<0>>, <<ESC>>, <<ESC, 0>>, FrameAC, FrameACEsc, FrameStatusGps,
      <<ESC, MODE_AC_BYTE, 1, ESC>> }

\* runs of bytes that start no frame, longer than max_bytes_without_sync
LongStreams ==
    { Repeat(<<0>>, 2 * max_bytes_without_sync + 2),
      Repeat(<<ESC>>, 2 * max_bytes_without_sync + 2),
      <<0>> \o FrameAC \o Repeat(<<0>>, max_bytes_without_sync + 2),
      Repeat(<<ESC>>, 3) \o Repeat(<<0>>, max_bytes_without_sync) \o FrameAC }

RECURSIVE Flatten(_)
Flatten(ss) == IF ss = <<>> THEN <<>> ELSE Head(ss) \o Flatten(Tail(ss))

Streams ==
    LongStreams \cup
    { Flatten(ss) : ss \in UNION { [1..n -> Pieces] : n \in 1..MaxPieces } }

Origins ==
    { Running(0, "on"), Running(115200, "unset"),
      PinnedBad(lost_sync_restart_literal - 1) }

InitParser ==
    /\ \E o \in Origins :
          /\ origin = o
          /\ SessionIs(o)
          /\ fixed_baud_rate = IF Len(o.autobaud_rates) > 1 THEN 0 ELSE o.autobaud_rates[1]
    /\ stream \in Streams
    /\ sent = NothingSent
    /\ started = TRUE
    /\ closed = FALSE
    /\ pos = 0
    /\ budget = 0

\* the next n bytes of the stream arrive in one read
Feed ==
    \E n \in 1..(Len(stream) - pos) :
        LET s == parse_input([Session EXCEPT !.trace = trace],
                             SubSeq(stream, pos + 1, pos + n), TRUE)
        IN  /\ Bounded(s)
            /\ Becomes(s)
            /\ pos' = pos + n
            /\ UNCHANGED <<started, closed, origin, stream, sent, budget>>

SpecParser == InitParser /\ [][Feed]_vars

-----------------------------------------------------------------------------
(* The parser on one frame: a frame is encoded as the sender does, 0x1A and *)
(* the type, then metadata and payload with every 0x1A doubled, and fed to  *)
(* a session by reads of any lengths                                        *)

MetaAllEsc == <<ESC, ESC, ESC, ESC, ESC, ESC, ESC>>
MetaHigh == <<255, 254, 253, 128, 127, 1, ESC>>
PayloadS == <<ESC, 1, 2, 3, ESC, ESC, 6, 7, 8, 9, 10, 11, 12, ESC>>
PayloadStatus == <<GPS_BIT, 0, 0, 0, 0, 0, 0, 0, 0, 0, 0, 0, 0, 0>>

SentFrames ==
    { [typebyte |-> MODE_AC_BYTE, metadata |-> m, payload |-> p] :
          m \in {Meta0, MetaEsc, MetaAllEsc, MetaHigh},
          p \in {<<7, 8>>, PayloadEsc, <<ESC, ESC>>} }
    \cup { [typebyte |-> MODE_S_BYTE, metadata |-> MetaEsc, payload |-> PayloadS],
           [typebyte |-> STATUS_BYTE, metadata |-> MetaHigh, payload |-> PayloadStatus] }

\* what may precede the frame on the line
Prefixes == { <<>>, <<0>>, <<ESC>>, LoseSync \o <<0>> }

\* the session after reads that returned the buffers bufs, in order
RECURSIVE AfterReads(_, _)
AfterReads(s, bufs) ==
    IF bufs = <<>> THEN s
    ELSE AfterReads(AfterRead(s, Head(bufs)), Tail(bufs))

\* n frames in a row after a byte that gives sync
InSync(n) == <<0>> \o Repeat(FrameAC, n)

\* what the sessions a frame is fed to have read since start(): nothing
\* (RESYNC); as many bytes without sync as may pass, all 1A (RESYNC) or none
\* but the last (TEST_TYPE); one byte (FIND_1A); 1, 4 and 5 frames (READ_1A)
\* at a fixed rate; frames enough to pin a rate; and as many sync failures
\* after that as a pinned rate survives
OriginReads ==
    { [rate |-> 115200, bufs |-> <<>>],
      [rate |-> 115200, bufs |-> << Repeat(<<ESC>>, max_bytes_without_sync) >>],
      [rate |-> 115200, bufs |-> << Repeat(<<0>>, max_bytes_without_sync) \o <<ESC>> >>],
      [rate |-> 115200, bufs |-> << <<0>> >>],
      [rate |-> 0, bufs |-> << <<0>> >>],
      [rate |-> 115200, bufs |-> << InSync(1) >>],
      [rate |-> 115200, bufs |-> << InSync(4) >>],
      [rate |-> 115200, bufs |-> << InSync(5) >>],
      [rate |-> 0, bufs |-> << InSync(autobaud_good_syncs_needed) >>],
      [rate |-> 0, bufs |-> << InSync(autobaud_good_syncs_needed),
                               Repeat(LoseSync, lost_sync_restart_literal) >>] }

FrameOrigins ==
    { AfterReads(Running(r.rate, "on"), r.bufs) : r \in OriginReads }

InitFrame ==
    /\ \E o \in FrameOrigins :
          /\ origin = o
          /\ SessionIs(o)
          /\ fixed_baud_rate = IF Len(o.autobaud_rates) > 1 THEN 0 ELSE o.autobaud_rates[1]
    /\ sent \in SentFrames
    /\ \E prefix \in Prefixes :
          stream = prefix \o Frame(sent.typebyte, sent.metadata, sent.payload)
    /\ started = TRUE
    /\ closed = FALSE
    /\ pos = 0
    /\ budget = 0

SpecFrame == InitFrame /\ [][Feed]_vars

-----------------------------------------------------------------------------
(* Properties *)

\* the events of kind k the last handler logged
Events(k) == { i \in DOMAIN trace : trace[i].kind = k }

\* C1 (chunk invariance): however the bytes read so far were cut into reads,
\* the session (parser state, buffers, counters) and the sequence of frames
\* dispatched and lost_sync calls are those of one parse_input call on all
\* of them.
ChunkInvariance ==
    [Session EXCEPT !.trace = trace]
        = parse_input(origin, SubSeq(stream, 1, pos), TRUE)

\* a read ended between the two bytes of an escaped 1A, after a frame was
\* dispatched and sync was lost
ChunkCutInEscape ==
    /\ pos > 0 /\ pos < Len(stream)
    /\ state = "READ_ESCAPED_1A" /\ stream[pos + 1] = ESC
    /\ Events("frame") # {} /\ Events("lost_sync") # {}

\* C2 (suppression): every Message handed to message_notifier is handed over
\* while autobauding = false and receiver_type # UNKNOWN.
Suppression ==
    \A i \in Events("message") :
        ~trace[i].autobauding /\ trace[i].receiver_type # "UNKNOWN"

\* a Message was delivered by a session that autodetects its rate
MessageDelivered ==
    /\ Events("message") # {}
    /\ Len(autobaud_rates) > 1

\* C3 (reads are serialized): at most one read is outstanding (issued, not
\* yet completed or cancelled).
ReadsSerialized == reads.pending <= 1

\* the handler that ran last called handle_error with a real error
Faulted ==
    \E i \in Events("handle_error") : trace[i].ec = "error"

\* what handle_error leaves after a real error
FaultLeaves ==
    /\ ~port_open
    /\ ~autobaud_timer.waiting /\ ~autodetect_timer.waiting
    /\ baud_rate = 1
    /\ autobaud_interval = autobaud_base_interval
    /\ reconnect_timer.waiting

\* C4 (I/O failure policy): a handler in which handle_error ran with a real
\* error leaves the port closed, the autobaud and autodetect timers
\* cancelled, the first rate current, the interval at its base and the
\* reconnect timer armed; the reconnect timer's handler calls start().
FailurePolicy ==
    [][ /\ Faulted' => FaultLeaves'
        /\ reconnect_timer'.fired < reconnect_timer.fired
               => \E i \in DOMAIN trace' : trace'[i].kind = "start" ]_vars

\* a read or write failed while the session was running: operations were
\* outstanding on the port and the autobaud timer was waiting
FaultWhileRunning ==
    /\ Faulted /\ FaultLeaves
    /\ Events("start") = {}
    /\ reads.aborted + writes.aborted > 0
    /\ autobaud_timer.aborted > 0

\* this step runs the handler of a cancelled read, write or wait
CancelledHandlerRuns ==
    \/ trace' = << [kind |-> "handle_error", ec |-> "operation_aborted"] >>
    \/ autobaud_timer'.aborted < autobaud_timer.aborted
    \/ autodetect_timer'.aborted < autodetect_timer.aborted
    \/ reconnect_timer'.aborted < reconnect_timer.aborted

\* C5 (cancellation is not a fault): the handler of a cancelled read, write
\* or wait leaves the port, autobauding, the rate and its interval, the
\* receiver type, the parser and the three timers as they were.
CancellationNoFault ==
    [][ CancelledHandlerRuns =>
            /\ UNCHANGED <<port_open, autobauding, baud_rate, autobaud_interval,
                           receiver_type, receiving_gps_timestamps, state,
                           good_sync, bad_sync, bytes_since_sync>>
            /\ autobaud_timer'.waiting = autobaud_timer.waiting
            /\ autodetect_timer'.waiting = autodetect_timer.waiting
            /\ reconnect_timer'.waiting = reconnect_timer.waiting
            /\ reconnect_timer'.fired = reconnect_timer.fired
            /\ reads'.pending = reads.pending
            /\ writes'.pending = writes.pending ]_vars

\* the handler of a cancelled read ran in a session that is running
CancelledReadHandled ==
    /\ trace = << [kind |-> "handle_error", ec |-> "operation_aborted"] >>
    /\ port_open /\ reads.pending = 1

\* the rate after the current one, the first after the last
NextRate == IF baud_rate = Len(autobaud_rates) THEN 1 ELSE baud_rate + 1

\* C6 (autobaud convergence): a run of autobaud_good_syncs_needed frames
\* dispatched at one rate with no loss of sync, restart or fault in between
\* leaves autobauding = false; the dispatch that pins the rate leaves the
\* autobaud timer cancelled; and while autobauding each expiry of that timer
\* moves to the next rate of the list, the first after the last, so that
\* every rate is tried within one pass.
Convergence ==
    [][ /\ run_frames' >= autobaud_good_syncs_needed => ~autobauding'
        /\ \A i \in DOMAIN trace' :
               trace'[i].kind = "pinned" => ~trace'[i].timer_waiting
        /\ ( /\ autobaud_timer'.fired < autobaud_timer.fired
             /\ autobauding
             /\ ~Faulted' )
               => /\ baud_rate' = NextRate
                  /\ \E i \in DOMAIN trace' :
                         /\ trace'[i].kind = "start"
                         /\ trace'[i].rate = NextRate ]_vars

\* the fiftieth frame of a run was dispatched and pinned the rate
RatePinned ==
    /\ Events("pinned") # {}
    /\ run_frames = autobaud_good_syncs_needed
    /\ ~autobauding /\ ~autobaud_timer.waiting

\* C7 (resync bound), as stated: lost_sync has fired by the 30th byte counted
\* since bytes_since_sync was last zero, so the count never rests at 30.
ResyncBy30thByte == bytes_since_sync < max_bytes_without_sync

\* the bytes the read of this step delivers
Fed == SubSeq(stream, pos + 1, pos')

\* bytes that start no frame: other than 1A while a 1A is sought, or 1A only
\* while in RESYNC
NoFrameFed ==
    \/ /\ state \in {"RESYNC", "FIND_1A"}
       /\ \A i \in DOMAIN Fed : Fed[i] # ESC
    \/ /\ state = "RESYNC"
       /\ \A i \in DOMAIN Fed : Fed[i] = ESC

\* C7 (resync bound), amended: lost_sync fires when the count of such bytes
\* exceeds max_bytes_without_sync, that is at the 31st byte, and leaves the
\* count at zero: the count never rests above 30.
ResyncBound ==
    [][ /\ bytes_since_sync' <= max_bytes_without_sync
        /\ (NoFrameFed /\ bytes_since_sync + Len(Fed) > max_bytes_without_sync)
               => \E i \in (Len(trace) + 1)..Len(trace') :
                      trace'[i].kind = "lost_sync" ]_vars

\* 31 bytes or more that start no frame were read by a session in RESYNC
\* with a count of zero, and lost_sync fired
LostSyncByCount ==
    /\ pos > max_bytes_without_sync
    /\ \A i \in 1..pos : stream[i] = 0
    /\ origin.state = "RESYNC" /\ origin.bytes_since_sync = 0
    /\ Len(trace) >= 1 /\ trace[1].kind = "lost_sync"

\* C8 (restart threshold): a lost_sync in a session that has pinned its rate
\* and has more than one rate, and that leaves bad_sync above
\* autobaud_restart_after_bad_syncs, re-enters autobauding.
RestartThreshold ==
    [][ ( /\ ~autobauding /\ Len(autobaud_rates) > 1
          /\ \E i \in DOMAIN trace' : trace'[i].kind = "lost_sync"
          /\ bad_sync' > autobaud_restart_after_bad_syncs )
            => autobauding' ]_vars

\* C9 (radarcape autodetection), as stated: every STATUS frame dispatched
\* while receiver_type = UNKNOWN is followed by the detection, whatever the
\* value of autobauding.
DetectsWhateverAutobauding ==
    \A i \in Events("frame") :
        (trace[i].type = "STATUS" /\ trace[i].receiver_type = "UNKNOWN")
            => i < Len(trace) /\ trace[i + 1].kind = "detected"

\* what the handler that ran last did with the STATUS frames it dispatched
\* while the receiver type was unknown
StatusDetects ==
    \A i \in Events("frame") :
        (trace[i].type = "STATUS" /\ trace[i].receiver_type = "UNKNOWN")
            => IF trace[i].autobauding
               THEN i = Len(trace) \/ trace[i + 1].kind # "detected"
               ELSE /\ i + 2 <= Len(trace)
                    /\ trace[i + 1].kind = "detected"
                    /\ ~trace[i + 1].timer_waiting
                    /\ trace[i + 2].kind = "settings"
                    /\ trace[i + 2].radarcape

\* C9 (radarcape autodetection), amended: a STATUS frame dispatched while
\* receiver_type = UNKNOWN makes the receiver a RADARCAPE, cancels the
\* autodetect timer and sends the settings, if autobauding = false once the
\* frame is counted as a good sync; while autobauding = true it is swallowed
\* and changes nothing.  The handler of the autodetect timer, run without
\* error, makes the receiver a BEAST and sends the settings.
Autodetection ==
    [][ /\ StatusDetects'
        /\ autodetect_timer'.fired < autodetect_timer.fired
               => /\ receiver_type' = "BEAST"
                  /\ Len(trace') = 1
                  /\ trace'[1].kind = "settings" /\ ~trace'[1].radarcape ]_vars

\* a STATUS frame made the receiver a RADARCAPE
RadarcapeDetected ==
    /\ Events("detected") # {}
    /\ receiver_type = "RADARCAPE" /\ ~autodetect_timer.waiting

\* C10 (timestamp kind tracking), as stated: a Message is delivered with
\* kind GPS exactly when the last STATUS frame dispatched since start() had
\* the GPS bit set.
KindTracksDispatched ==
    \A i \in Events("message") :
        (trace[i].timestamp_kind = "GPS") <=> (trace[i].status_dispatched = "gps")

\* C10 (timestamp kind tracking), amended: a Message is delivered with kind
\* GPS exactly when the last STATUS frame dispatched with autobauding = false
\* since start() had the GPS bit set, and with TWELVEMEG when it had not or
\* when there was none; receiving_gps_timestamps holds that bit.
KindTracksProcessed ==
    /\ receiving_gps_timestamps <=> (status_processed = "gps")
    /\ \A i \in Events("message") :
           (trace[i].timestamp_kind = "GPS") <=> (trace[i].status_processed = "gps")

\* a Mode A/C frame was delivered with a GPS timestamp
GpsMessageDelivered ==
    \E i \in Events("message") :
        trace[i].timestamp_kind = "GPS" /\ trace[i].type = "MODE_AC"

\* C11 (settings write moments): no settings message is written while the
\* port is closed: every call of send_settings_message finds the port open.
SettingsOnlyWhileOpen ==
    \A i \in Events("settings") : trace[i].port_open


\* the parser, the autobaud controller, the receiver type, the timers and the
\* reads are as they were
RestUntouched ==
    UNCHANGED <<state, messagetype, metadata, messagedata, good_sync, bad_sync,
                bytes_since_sync, autobauding, baud_rate, autobaud_interval,
                autobaud_rates, receiver_type, receiving_gps_timestamps,
                port_open, reads, autobaud_timer, autodetect_timer,
                reconnect_timer>>

\* C12 (set_filter): set_filter(f) with f the current filter changes nothing
\* and writes nothing; with another f it replaces the filter and writes one
\* settings message carrying f if the port is open, none if it is closed; it
\* never touches parser, autobaud state, receiver type, timers or reads; and
\* every settings message, whoever writes it, carries the filter set last.
SetFilterContract ==
    [][ /\ \A i \in DOMAIN trace' :
              trace'[i].kind = "settings" => trace'[i].filter = filter'
        /\ (trace' # <<>> /\ trace'[1].kind = "set_filter") =>
              LET f == trace'[1].newfilter
                  written == { i \in DOMAIN trace' : trace'[i].kind = "settings" }
              IN  /\ filter' = f
                  /\ RestUntouched
                  /\ IF f # filter /\ port_open
                     THEN /\ Cardinality(written) = 1
                          /\ writes' = [writes EXCEPT !.pending = @ + 1]
                     ELSE /\ written = {}
                          /\ writes' = writes ]_vars

\* a new filter was set while the port was open, and written
FilterWritten ==
    /\ Len(trace) = 2
    /\ trace[1].kind = "set_filter" /\ trace[1].newfilter = "f1"
    /\ trace[2].kind = "settings" /\ trace[2].filter = "f1" /\ trace[2].port_open



\* C13 (length closure): every frame dispatch_message is called with has a
\* valid type, 7 bytes of metadata and a payload of the length of its type;
\* metadata never holds more than 7 bytes, and the payload holds none before
\* metadata holds 7.
LengthClosure ==
    /\ Len(metadata) <= metadata_size
    /\ messagedata # <<>> => Len(metadata) = metadata_size
    /\ \A i \in Events("frame") :
          /\ trace[i].type \in {"MODE_AC", "MODE_S", "STATUS"}
          /\ Len(trace[i].metadata) = metadata_size
          /\ Len(trace[i].payload) = message_size(trace[i].type)

\* a frame with an escaped 1A in its metadata and as its last byte was
\* dispatched from reads cut inside it
EscapedFrameDispatched ==
    /\ \E i \in Events("frame") :
          trace[i].metadata = MetaEsc /\ trace[i].payload = PayloadEsc
    /\ pos = Len(stream) /\ stream[pos] = ESC /\ state = "READ_1A"
    /\ origin.state = "RESYNC"



\* the stream is the encoded frame and nothing else
FrameAlone == stream = Frame(sent.typebyte, sent.metadata, sent.payload)

\* the frame sent, as dispatch_message logs a frame
FrameSent(e) ==
    /\ e.type = messagetype_from_byte(sent.typebyte)
    /\ e.metadata = sent.metadata
    /\ e.payload = sent.payload

\* C14 as stated (escape round trip, whatever the parser was doing): once
\* the encoded frame is parsed, exactly one frame was dispatched, equal to
\* the original, with no lost_sync.
RoundTripAnywhere ==
    (FrameAlone /\ pos = Len(stream)) =>
        /\ Events("lost_sync") = {}
        /\ Cardinality(Events("frame")) = 1
        /\ \A i \in Events("frame") : FrameSent(trace[i])

\* C14 (escape round trip, amended): fed to a parser that awaits a frame in
\* FIND_1A or READ_1A, the encoded frame dispatches exactly one frame, of the
\* original type, metadata and payload, with no lost_sync, and nothing is
\* dispatched before its last byte is read; fed to a parser in RESYNC, it
\* dispatches no frame equal to the original.
RoundTrip ==
    /\ (FrameAlone /\ origin.state \in {"FIND_1A", "READ_1A"}) =>
          /\ Events("lost_sync") = {}
          /\ \A i \in Events("frame") : FrameSent(trace[i])
          /\ Cardinality(Events("frame")) = IF pos = Len(stream) THEN 1 ELSE 0
    /\ (FrameAlone /\ origin.state = "RESYNC") =>
          \A i \in Events("frame") : ~FrameSent(trace[i])

\* a frame with escaped 1A bytes all over went through a parser in READ_1A
AllEscapedRoundTrip ==
    /\ FrameAlone /\ origin.state = "READ_1A" /\ pos = Len(stream)
    /\ sent.metadata = MetaAllEsc /\ sent.payload = <<ESC, ESC>>
    /\ \E i \in Events("frame") : FrameSent(trace[i])



\* the three bytes of a 24-bit half, most significant first
Bytes24(n) == << n \div 65536, (n \div 256) % 256, n % 256 >>

\* C15 (timestamp assembly): the timestamp of every Message delivered is the
\* 48-bit value whose six bytes, most significant first, are the metadata
\* bytes m0..m5 of its frame, none lost or altered, and its signal is m6.
TimestampAssembly ==
    \A i \in Events("message") :
        LET e == trace[i]
            m == e.metadata
        IN  /\ e.timestamp.hi \in 0..16777215 /\ e.timestamp.lo \in 0..16777215
            /\ Bytes24(e.timestamp.hi) = << m[1], m[2], m[3] >>
            /\ Bytes24(e.timestamp.lo) = << m[4], m[5], m[6] >>
            /\ e.signal = m[7]
            /\ (FrameAlone /\ origin.state \in {"FIND_1A", "READ_1A"}) =>
                   m = sent.metadata

\* a Message whose timestamp has its highest bits set was delivered
HighTimestampDelivered ==
    \E i \in Events("message") :
        /\ trace[i].metadata = MetaHigh /\ sent.metadata = MetaHigh
        /\ trace[i].timestamp.hi = 255 * 65536 + 254 * 256 + 253
        /\ trace[i].signal = ESC



\* a handler took an error that was no cancellation
ErrorHandled ==
    \E i \in DOMAIN trace' :
        trace'[i].kind = "handle_error" /\ trace'[i].ec # "operation_aborted"

\* twice the interval, or the maximum if that is less
Doubled ==
    IF 2 * autobaud_interval > autobaud_max_interval
    THEN autobaud_max_interval ELSE 2 * autobaud_interval

\* the handler of the autobaud timer ran
AutobaudHandlerRuns == autobaud_timer'.fired < autobaud_timer.fired

\* C16 (autobaud interval backoff): the interval stays between the base and
\* the maximum; it changes only by doubling, capped at the maximum, when the
\* rate wraps from the last to the first, and by reset to the base when an
\* error is handled; each expiry of the autobaud timer while autobauding
\* selects the next rate of the list, and the interval is doubled, up to the
\* maximum, exactly on the expiries that wrap.
IntervalBackoff ==
    /\ [](autobaud_interval \in autobaud_base_interval..autobaud_max_interval)
    /\ [][ /\ autobaud_interval' # autobaud_interval =>
                 \/ /\ baud_rate = Len(autobaud_rates) /\ baud_rate' = 1
                    /\ autobaud_interval' = Doubled
                    /\ ~ErrorHandled
                 \/ /\ autobaud_interval' = autobaud_base_interval
                    /\ ErrorHandled
           /\ (AutobaudHandlerRuns /\ autobauding /\ ~ErrorHandled) =>
                 /\ baud_rate' = NextRate
                 /\ autobaud_interval' =
                        IF baud_rate = Len(autobaud_rates)
                        THEN Doubled ELSE autobaud_interval ]_vars

\* the rates wrapped once the interval had reached the maximum
WrappedAtMaximum ==
    /\ autobaud_interval = autobaud_max_interval /\ baud_rate = 1
    /\ \E i \in Events("start") : trace[i].ok /\ trace[i].rate = 1
    /\ autobauding /\ autobaud_timer.waiting



\* what the session does in a step: callbacks to the consumer, reads and
\* settings writes it starts, and starts of the session
Activity ==
    { i \in DOMAIN trace' :
          trace'[i].kind \in {"message", "read", "settings", "start"} }

\* C17 (close): once close() has been called the port stays closed and the
\* session calls no consumer callback, starts no read and no write, and is
\* not started again.
QuietAfterClose ==
    [][ closed => (Activity = {} /\ ~port_open') ]_vars

\* after close(), the reconnect timer has opened the port again
ReopenedAfterClose ==
    closed /\ port_open /\ reads.pending > 0



\* C18 (lost_sync policy): every call of lost_sync leaves state = RESYNC,
\* good_sync = 0 and bytes_since_sync = 0, and bad_sync at 0 if good_sync
\* was 5 or more before the call and one above its value otherwise; a call
\* made while autobauding, or in a session with a single rate, leaves
\* autobauding and the rate as they were and does not start the session.
LostSyncPolicy ==
    \A i \in Events("lost_sync") :
        LET b == trace[i].before
            a == trace[i].after
        IN  /\ a.state = "RESYNC" /\ a.good_sync = 0 /\ a.bytes_since_sync = 0
            /\ a.bad_sync = IF b.good_sync >= 5 THEN 0 ELSE b.bad_sync + 1
            /\ (b.autobauding \/ trace[i].rates = 1) =>
                  /\ a.autobauding = b.autobauding
                  /\ a.baud_rate = b.baud_rate
                  /\ trace[i].starts = 0

\* sync was lost after five good syncs, which was forgiven, and again before
\* any frame, which was counted
ForgivenThenCounted ==
    \E i, j \in Events("lost_sync") :
        /\ i < j
        /\ trace[i].before.good_sync = 5 /\ trace[i].after.bad_sync = 0
        /\ trace[j].before.good_sync = 0 /\ trace[j].after.bad_sync = 1


\* the events the read of this step logged
Logged(k) == { i \in (Len(trace) + 1)..Len(trace') : trace'[i].kind = k }

\* the stream is the encoded frame after 0x1A bytes only, if any
OnlyEscapesBefore ==
    \E n \in 0..1 :
        stream = Repeat(<<ESC>>, n) \o Frame(sent.typebyte, sent.metadata, sent.payload)

\* C19 (resynchronisation needs a non-0x1A prefix): byte by byte, TEST_TYPE
\* is entered only on a 1A found by FIND_1A, and FIND_1A from another state
\* only on a byte other than 1A; a 1A read in RESYNC is counted, leaves the
\* parser in RESYNC and dispatches nothing; a byte that is no type in
\* TEST_TYPE is examined again by FIND_1A, with no lost_sync but the one the
\* byte count provokes; and a parser in RESYNC never dispatches a frame it is
\* fed with nothing but 1A bytes before it, and does dispatch it after a 00.
ResyncNeedsPrefix ==
    /\ []( (origin.state = "RESYNC" /\ OnlyEscapesBefore) =>
              \A i \in Events("frame") : ~FrameSent(trace[i]) )
    /\ []( (origin.state = "RESYNC" /\ pos = Len(stream)
              /\ stream = <<0>> \o Frame(sent.typebyte, sent.metadata, sent.payload)) =>
              \E i \in Events("frame") : FrameSent(trace[i]) )
    /\ [][ pos' = pos + 1 =>
             LET b == stream[pos']
             IN  /\ state' = "TEST_TYPE" =>
                        b = ESC /\ state \in {"FIND_1A", "TEST_TYPE"}
                 /\ (state' = "FIND_1A" /\ state \notin {"FIND_1A", "TEST_TYPE"}) =>
                        b # ESC
                 /\ (state = "RESYNC" /\ b = ESC) =>
                        /\ state' = "RESYNC" /\ Logged("frame") = {}
                        /\ IF bytes_since_sync < max_bytes_without_sync
                           THEN bytes_since_sync' = bytes_since_sync + 1
                                /\ Logged("lost_sync") = {}
                           ELSE bytes_since_sync' = 1
                 /\ (state = "TEST_TYPE" /\ messagetype_from_byte(b) = "INVALID") =>
                        /\ Logged("frame") = {}
                        /\ IF b = ESC
                           THEN state' = "TEST_TYPE" /\ Logged("lost_sync") = {}
                                /\ bytes_since_sync' = bytes_since_sync
                           ELSE IF bytes_since_sync < max_bytes_without_sync
                           THEN state' = "FIND_1A" /\ Logged("lost_sync") = {}
                                /\ bytes_since_sync' = bytes_since_sync + 1
                           ELSE Logged("lost_sync") # {} ]_vars

\* a parser in TEST_TYPE with 30 bytes counted read a byte that was no type
RevertAtLimit ==
    /\ origin.state = "TEST_TYPE"
    /\ origin.bytes_since_sync = max_bytes_without_sync
    /\ pos = 1 /\ stream[1] = 0 /\ Events("lost_sync") # {}

\* a frame was fed whole to a parser in RESYNC, which passed through
\* TEST_TYPE on the 1A bytes of its metadata and dispatched nothing
FrameMissedInResync ==
    /\ origin.state = "RESYNC" /\ FrameAlone /\ pos = Len(stream)
    /\ sent.metadata = MetaAllEsc
    /\ Events("frame") = {} /\ state = "FIND_1A"



\* C20 (pin evidence belongs to the pinned rate): whenever dispatch_message
\* pins the current rate, autobaud_good_syncs_needed frames at least have
\* been dispatched with no lost_sync since that rate was selected by
\* advance_autobaud, start() or handle_error.
PinEvidence ==
    \A i \in Events("pinned") :
        trace[i].run_frames >= autobaud_good_syncs_needed

\* a rate other than the first was pinned on fewer frames than are needed
PinnedOnBorrowedEvidence ==
    \E i \in Events("pinned") :
        /\ trace[i].rate = 2
        /\ trace[i].run_frames = 2



\* C21 (a fixed baud rate never autobauds): a session constructed with a
\* fixed baud rate, whose list has that one rate, never has autobauding =
\* true, so no frame it dispatches is withheld for the validation of the rate.
FixedRateNeverAutobauds ==
    /\ Len(autobaud_rates) = 1 => ~autobauding
    /\ \A i \in Events("frame") :
          Len(autobaud_rates) = 1 => ~trace[i].autobauding

\* a session at a fixed rate, reconnected after a fault, dispatched a frame
\* and withheld it from the consumer
FixedRateFrameWithheld ==
    /\ fixed_baud_rate # 0 /\ Len(autobaud_rates) = 1
    /\ port_open /\ autobauding
    /\ \E i \in Events("frame") : trace[i].autobauding
    /\ Events("message") = {}
    /\ receiver_type = "RADARCAPE" /\ message_notifier



\* a lost_sync of this step found the rate pinned and bad_sync above the
\* restart threshold, and restarted autobauding
RestartedByLostSync ==
    \E i \in DOMAIN trace' :
        /\ trace'[i].kind = "lost_sync"
        /\ ~trace'[i].before.autobauding
        /\ trace'[i].before.bad_sync + 1 > lost_sync_restart_literal
        /\ trace'[i].starts > 0

\* C22 (pinned rate stability): the current rate always indexes an entry of
\* autobaud_rates; while autobauding = false it changes only in a step where
\* lost_sync exceeds the restart threshold or handle_error takes an error;
\* and the handler of an autobaud timer expiry that runs while autobauding =
\* false changes neither the rate, the interval, the port nor anything else,
\* and does not start the session.
PinnedRateStable ==
    /\ [](baud_rate \in 1..Len(autobaud_rates))
    /\ [][ /\ (~autobauding /\ baud_rate' # baud_rate) =>
                 (RestartedByLostSync \/ ErrorHandled)
           /\ (AutobaudHandlerRuns /\ ~autobauding) =>
                 /\ UNCHANGED <<baud_rate, autobaud_interval, autobauding,
                                port_open, reads, writes, autodetect_timer,
                                reconnect_timer, good_sync, bad_sync, state>>
                 /\ autobaud_timer' = [autobaud_timer EXCEPT !.fired = @ - 1]
                 /\ \A i \in DOMAIN trace' : trace'[i].kind # "start" ]_vars

\* the autobaud timer expired, the rate was pinned before its handler ran,
\* and the handler has run
LateExpiryDelivered ==
    /\ trace = << [kind |-> "advance_autobaud", autobauding |-> FALSE] >>
    /\ ~autobauding /\ Len(autobaud_rates) > 1
    /\ good_sync = autobaud_good_syncs_needed /\ port_open
    /\ autobaud_timer = IdleTimer

\* a pinned rate was given up for the next one by a lost_sync
PinnedRateGivenUp ==
    /\ \E i \in Events("lost_sync") :
          ~trace[i].before.autobauding /\ trace[i].starts > 0
             /\ trace[i].after.baud_rate = trace[i].before.baud_rate + 1
    /\ autobauding /\ baud_rate = 2


=============================================================================
